---- MODULE Spec2Model ----
(***************************************************************************)
(* The command-tree evaluator of Mini-Shell (src/cmd.c): parse_command,    *)
(* parse_simple, run_in_parallel, run_on_pipe, handle_redirection and the  *)
(* builtins, as a system of processes with descriptor tables, pipes,       *)
(* working directories and environments.                                   *)
(*                                                                         *)
(* A command tree is evaluated by the shell process and by the children it *)
(* forks.  Every node of the tree is evaluated at most once, by one        *)
(* process, so the C call stack of a process is kept as one frame per node *)
(* (frame[p], p the path of the node from the root), and a process is      *)
(* named by the place that forks it: the child forked for the subtree at   *)
(* path q is Sub(q), the child forked for the external command at leaf q   *)
(* is Ext(q).                                                              *)
(***************************************************************************)
EXTENDS Integers, Sequences, FiniteSets, TLC

VARIABLES
  tree,    \* the command_t tree handed to parse_command(root, 0, NULL)
  frame,   \* per node: the locals of the call evaluating it and where it is
  ps,      \* per process: "unborn", "run" (the shell's code), "prog" (an
           \* exec'd program), "zombie" (terminated), "reaped" (waited for)
  wst,     \* per process: the wait status it terminated with
  fdt,     \* per process: its descriptor table
  cwd,     \* per process: its working directory
  env,     \* per process: its environment
  nw,      \* per process: units it has written to a pipe
  pipes,   \* per PIPE node: the channel pipe() created there
  sigchld  \* the disposition of SIGCHLD the shell was started with

vars == <<tree, frame, ps, wst, fdt, cwd, env, nw, pipes, sigchld>>

-----------------------------------------------------------------------------
(* Bounds of the model *)

\* descriptors a process may hold (its RLIMIT_NOFILE)
NFd == 7
\* units an external program writes to its standard output
MaxWrite == 1

-----------------------------------------------------------------------------
(* Program constants *)

STDIN_FILENO == 0
STDOUT_FILENO == 1
STDERR_FILENO == 2
EXIT_FAILURE == 1

-----------------------------------------------------------------------------
(* Strings are sequences of characters; a NULL pointer is NULL. *)

NULL == <<"(null)">>

W_cd == <<"c", "d">>
W_pwd == <<"p", "w", "d">>
W_exit == <<"e", "x", "i", "t">>
W_quit == <<"q", "u", "i", "t">>
W_HOME == <<"H", "O", "M", "E">>

\* isalnum(c) || c == '_'
NameChars ==
     {"A", "B", "H", "O", "M", "E", "V", "a", "b", "c", "d", "e", "f", "m",
         "o", "p", "q", "u", "i", "t", "w", "x", "n", "0", "1", "_"}

\* The files, directories and programs of the machine the shell runs on.
ReadableFiles == {<<"f">>, <<"o">>, <<"e">>}
WritableFiles == {<<"f">>, <<"o">>, <<"e">>}
Directories == {<<"/">>, <<"d">>, <<"h">>}
Programs == {<<"p">>}

-----------------------------------------------------------------------------
(* Wait statuses *)

Exited(c) == [how |-> "exit", code |-> c % 256]
Signaled == [how |-> "sig", code |-> 0]
NoStatus == [how |-> "none", code |-> 0]

WIFEXITED(st) == st.how = "exit"
WEXITSTATUS(st) == st.code

\* exit codes an external program ends with
ExitCodes == {0, 3}

\* what an int that no waitpid has written may hold
UninitStatus == {Exited(c) : c \in ExitCodes} \cup {Signaled}

-----------------------------------------------------------------------------
(* Command trees (command_t, simple_command_t) *)

NullCmd == [op |-> "NULL"]

Simple(verb, params, in, out, err) ==
  [op |-> "OP_NONE",
   scmd |-> [verb |-> verb, params |-> params, in |-> in, out |-> out,
             err |-> err]]

Op(o, c1, c2) == [op |-> o, cmd1 |-> c1, cmd2 |-> c2]

Paths == {<<>>, <<1>>, <<2>>, <<1, 1>>, <<1, 2>>, <<2, 1>>, <<2, 2>>}

\* c->cmd1, c->cmd2; NullCmd where there is none
Child(t, i) ==
  IF t.op \in {"NULL", "OP_NONE"} THEN NullCmd
  ELSE IF i = 1 THEN t.cmd1 ELSE t.cmd2

\* the node of tree t at path p (of Paths); NullCmd where there is none
At(t, p) ==
  IF Len(p) = 0 THEN t
  ELSE IF Len(p) = 1 THEN Child(t, p[1])
  ELSE Child(Child(t, p[1]), p[2])

Node(p) == At(tree, p)

Front(p) == SubSeq(p, 1, Len(p) - 1)

IsPrefix(a, b) == Len(a) <= Len(b) /\ SubSeq(b, 1, Len(a)) = a

\* p is the path of a call parse_command makes (the root, or a child of an
\* operator node, which may be a NULL pointer)
Called(p) == p = <<>> \/ (p \in Paths /\ Node(Front(p)).op \notin {"NULL", "OP_NONE"})

-----------------------------------------------------------------------------
(* Processes *)

Sh == [k |-> "sh", at |-> <<>>]
Sub(q) == [k |-> "sub", at |-> q]
Ext(q) == [k |-> "ext", at |-> q]

Procs == {Sh} \cup {Sub(q) : q \in Paths \ {<<>>}} \cup {Ext(q) : q \in Paths}

ForkOps == {"OP_PARALLEL", "OP_PIPE"}

\* the process that runs parse_command on the node at path p: the child
\* forked for the innermost subtree that holds p and is a child of a
\* PARALLEL or PIPE node, the shell when there is none
Innermost(p, forked) ==
  IF forked = {} THEN Sh
  ELSE Sub(SubSeq(p, 1, CHOOSE i \in forked : \A j \in forked : j <= i))

Exec(p) ==
  Innermost(p, {i \in 1 .. Len(p) : Node(SubSeq(p, 1, i - 1)).op \in ForkOps})

\* the node whose evaluation forks process pr, and the process that forks it
ForkedBy(pr) == IF pr.k = "ext" THEN Exec(pr.at) ELSE Exec(Front(pr.at))

Alive(pr) == ps[pr] \in {"run", "prog"}

-----------------------------------------------------------------------------
(* Descriptors *)

Fds == 0 .. (NFd - 1)

Closed == [k |-> "closed", at |-> <<>>, name |-> <<>>]
Tty == [k |-> "tty", at |-> <<>>, name |-> <<>>]
FileD(name) == [k |-> "file", at |-> <<>>, name |-> name]
PipeR(p) == [k |-> "pr", at |-> p, name |-> <<>>]
PipeW(p) == [k |-> "pw", at |-> p, name |-> <<>>]

NoFds == [fd \in Fds |-> Closed]
InitFds == [fd \in Fds |-> IF fd <= STDERR_FILENO THEN Tty ELSE Closed]

FreeFds(t) == {fd \in Fds : t[fd] = Closed}
Least(S) == IF S = {} THEN -1 ELSE CHOOSE fd \in S : \A g \in S : fd <= g
\* the descriptor open(), dup() and pipe() hand out: the lowest free one, -1
\* when the table is full (EMFILE)
LowestFree(t) == Least(FreeFds(t))

Close(t, fd) == IF fd \in Fds THEN [t EXCEPT ![fd] = Closed] ELSE t
\* dup2(old, new): fails (table unchanged) on a bad old descriptor
Dup2(t, old, new) ==
  IF old \in Fds /\ t[old] # Closed THEN [t EXCEPT ![new] = t[old]] ELSE t
\* descriptor n (-1: none) is made to refer to description d
Install(t, n, d) ==
  IF n = -1 THEN [fd |-> -1, t |-> t] ELSE [fd |-> n, t |-> [t EXCEPT ![n] = d]]
\* dup(old): the new descriptor and the table
Dup(t, old) ==
  IF t[old] = Closed THEN [fd |-> -1, t |-> t]
  ELSE Install(t, LowestFree(t), t[old])

\* some live process holds descriptor d
Held(d) == \E pr \in Procs : Alive(pr) /\ \E fd \in Fds : fdt[pr][fd] = d

-----------------------------------------------------------------------------
(* Text expansion and the environment *)

Getenv(e, name) == IF name \in DOMAIN e THEN e[name] ELSE NULL

\* setenv(name, value, 1), which succeeds
Setenv(e, name, value) ==
  [x \in DOMAIN e \cup {name} |-> IF x = name THEN value ELSE e[x]]

\* the first index from i on where str holds no character of `chars`
\* (Len(str) + 1 when there is none)
SpanEnd(str, i, chars) ==
  Least({j \in i .. Len(str) + 1 : j = Len(str) + 1 \/ str[j] \notin chars})

\* the first index from i on where str holds a character of `chars`
FindEnd(str, i, chars) ==
  Least({j \in i .. Len(str) + 1 : j = Len(str) + 1 \/ str[j] \in chars})

\* what $NAME is replaced by
ValueOf(value) == IF value # NULL THEN value ELSE <<>>

\* the output of the scan of input from index i on
ExpandFrom(input, e) ==
  LET out[i \in 1 .. Len(input) + 1] ==
        IF i > Len(input) THEN <<>>
        ELSE IF input[i] = "$"
          THEN ValueOf(Getenv(e, SubSeq(input, i + 1,
                                        SpanEnd(input, i + 1, NameChars) - 1)))
               \o out[SpanEnd(input, i + 1, NameChars)]
          ELSE <<input[i]>> \o out[i + 1]
  IN out[1]

expand_variables(input, e) == IF input = NULL THEN NULL ELSE ExpandFrom(input, e)

remove_quotes(input) ==
  IF input = NULL THEN NULL
  ELSE SelectSeq(input, LAMBDA c : c # "'" /\ c # "\"")

-----------------------------------------------------------------------------
(* Redirection *)

\* open(name, ...): the new descriptor (-1 on failure) and the table
Open(t, name, openable) ==
  IF name \in openable THEN Install(t, LowestFree(t), FileD(name))
  ELSE [fd |-> -1, t |-> t]

\* dup2(fd, ..) onto each descriptor of `onto`
DupOnto(t, fd, onto) ==
  IF Len(onto) = 1 THEN Dup2(t, fd, onto[1])
  ELSE Dup2(Dup2(t, fd, onto[1]), fd, onto[2])

\* after open() gave o: dup2 onto each descriptor of `onto`, close:
\* [ok, t, opened]; not ok is the exit(EXIT_FAILURE) of a failed open, and
\* opened lists the names open() has been called with
Redirected(o, onto, opened) ==
  IF o.fd = -1 THEN [ok |-> FALSE, t |-> o.t, opened |-> opened]
  ELSE [ok |-> TRUE, t |-> Close(DupOnto(o.t, o.fd, onto), o.fd),
        opened |-> opened]

RedirectTo(t, name, openable, onto, opened) ==
  Redirected(Open(t, name, openable), onto, Append(opened, name))

Redirect(t, target, e, openable, onto, opened) ==
  RedirectTo(t, expand_variables(target, e), openable, onto, opened)

\* a step of handle_redirection, skipped once exit() has been called
Then(r, target, e, openable, onto) ==
  IF r.ok /\ target # NULL
    THEN Redirect(r.t, target, e, openable, onto, r.opened)
    ELSE r

NoneOpened(t) == [ok |-> TRUE, t |-> t, opened |-> <<>>]

\* the one value of a singleton set
The(S) == CHOOSE x \in S : TRUE

\* input first, then output and error (one file when they are the same
\* string), each step on the table the step before left
Redirections(cmd, t, e) ==
  The({ IF cmd.out # NULL /\ cmd.err # NULL /\ cmd.out = cmd.err
          THEN Then(r, cmd.out, e, WritableFiles,
                    <<STDOUT_FILENO, STDERR_FILENO>>)
          ELSE The({ Then(r2, cmd.err, e, WritableFiles, <<STDERR_FILENO>>) :
                       r2 \in {Then(r, cmd.out, e, WritableFiles,
                                    <<STDOUT_FILENO>>)} }) :
        r \in {Then(NoneOpened(t), cmd.in, e, ReadableFiles,
                    <<STDIN_FILENO>>)} })

\* handle_redirection(cmd) in a process with table t and environment e
handle_redirection(cmd, t, e) ==
  The({ Redirections(c, u, v) : c \in {cmd}, u \in {t}, v \in {e} })

-----------------------------------------------------------------------------
(* Builtins *)

\* chdir that moves to the target also when it reports failure
ChdirAnyway(target_dir, wd) ==
  [ok |-> target_dir # NULL /\ target_dir \in Directories,
   cwd |-> IF target_dir # NULL THEN target_dir ELSE wd]

\* chdir(target_dir), target_dir NULL when HOME is not set: [ok, cwd]
Chdir(target_dir, wd) ==
  IF target_dir # NULL /\ target_dir \in Directories
    THEN [ok |-> TRUE, cwd |-> target_dir]
    ELSE [ok |-> FALSE, cwd |-> wd]

\* shell_cd(dir): [ok, cwd]
shell_cd(dir, wd, e) ==
  Chdir(IF dir # NULL /\ dir # <<>> THEN remove_quotes(dir) ELSE Getenv(e, W_HOME),
        wd)

IsBuiltin(word) == word \in {W_cd, W_pwd, W_exit, W_quit}

-----------------------------------------------------------------------------
(* The state after construction: the shell is about to call                *)
(* parse_command(root, 0, NULL).                                           *)

InitFrame == [pc |-> "idle", ret |-> 0, status1 |-> NoStatus,
              status2 |-> NoStatus, pipefd |-> <<-1, -1>>]

EmptyPipe == [buf |-> <<>>, wr |-> <<>>, rd |-> <<>>, eof |-> FALSE]

\* HOME, and two variables V and B that hold the same file name
InitEnv ==
  [x \in {W_HOME, <<"V">>, <<"B">>} |-> IF x = W_HOME THEN <<"h">> ELSE <<"o">>]

\* an external program, a program that is not installed, a missing verb,
\* pwd, exit
Prog == Simple(<<"p">>, NULL, NULL, NULL, NULL)
NoProg == Simple(<<"n">>, NULL, NULL, NULL, NULL)
NoVerb == Simple(NULL, NULL, NULL, NULL, NULL)
Pwd == Simple(W_pwd, NULL, NULL, NULL, NULL)
Exit == Simple(W_exit, NULL, NULL, NULL, NULL)

CondOps == {"OP_SEQUENTIAL", "OP_CONDITIONAL_ZERO", "OP_CONDITIONAL_NZERO"}
Ops == CondOps \cup ForkOps

\* redirect targets: none, a file that opens, a file that does not
InTargets == {NULL, <<"f">>, <<"m">>}
OutTargets == {NULL, <<"o">>, <<"b">>}
ErrTargets == {NULL, <<"e">>, <<"o">>}

\* the simple commands evaluated on their own
Commands ==
  {Simple(v, NULL, i, o, e) :
     v \in {W_cd, W_pwd, W_exit, W_quit, <<"p">>, <<"n">>},
     i \in InTargets, o \in OutTargets, e \in ErrTargets}
  \cup {Simple(W_cd, d, NULL, NULL, NULL) : d \in {<<"d">>, <<"x">>, <<>>}}
  \cup {Simple(v, NULL, NULL, NULL, NULL) :
          v \in {NULL, <<"A", "=", "1">>, <<"A", "=">>,
                 <<"A", "=", "1", "=", "0">>}}
  \cup {Simple(v, NULL, NULL, <<"$", "V">>, e) :
          v \in {W_pwd, <<"p">>}, e \in {<<"$", "V">>, <<"$", "B">>}}

\* the simple commands evaluated under an operator
Leaves == {Prog, NoProg, NoVerb, Pwd, Exit}

\* operator nodes one of whose children is itself an operator node
Nested ==
  {Op(o, Op(n, Pwd, NoVerb), Pwd) : o \in Ops, n \in CondOps}
  \cup {Op(o, Pwd, Op(n, NoVerb, Pwd)) : o \in Ops, n \in CondOps}
  \cup {Op("OP_PIPE", Op("OP_SEQUENTIAL", Pwd, Pwd), Prog)}
  \cup {Op("OP_SEQUENTIAL", Simple(W_cd, <<"d">>, NULL, NULL, NULL),
          Simple(W_cd, d, i, NULL, NULL)) :
          d \in {NULL, <<"x">>, <<"'", "d", "'">>}, i \in {NULL, <<"f">>}}
  \cup {Op(o, Op(n, Prog, NoVerb), Prog) :
          o \in {"OP_SEQUENTIAL", "OP_CONDITIONAL_NZERO"}, n \in ForkOps}

TreeFamily ==
  Commands
  \cup {NullCmd}
  \cup {Op(o, a, b) : o \in Ops, a \in Leaves \cup {NullCmd}, b \in Leaves \cup {NullCmd}}
  \cup Nested

Init ==
  /\ tree \in TreeFamily
  /\ frame = [p \in Paths |-> IF p = <<>> THEN [InitFrame EXCEPT !.pc = "start"]
                              ELSE InitFrame]
  /\ ps = [pr \in Procs |-> IF pr = Sh THEN "run" ELSE "unborn"]
  /\ wst = [pr \in Procs |-> NoStatus]
  /\ fdt = [pr \in Procs |-> IF pr = Sh THEN InitFds ELSE NoFds]
  /\ cwd = [pr \in Procs |-> <<"/">>]
  /\ env = [pr \in Procs |-> InitEnv]
  /\ nw = [pr \in Procs |-> 0]
  /\ pipes = [p \in Paths |-> EmptyPipe]
  /\ sigchld \in {"SIG_DFL", "SIG_IGN"}

-----------------------------------------------------------------------------
(* Steps shared by the operations *)

\* the call evaluating node p is at label l, in a process that still runs
AtPc(p, l) == Called(p) /\ frame[p].pc = l /\ ps[Exec(p)] = "run"

\* return v from the call evaluating node p
Return(f, p, v) == [f EXCEPT ![p].pc = "done", ![p].ret = v]
\* call parse_command on the child at path q
Call(f, q) == [f EXCEPT ![q].pc = "start"]

\* process pr terminates with wait status st: its descriptors are closed.
\* It stays a zombie until it is waited for, unless SIGCHLD is ignored: the
\* kernel then reaps it at once.
Terminate(pr, st) ==
  /\ ps' = [ps EXCEPT ![pr] = IF sigchld = "SIG_IGN" THEN "reaped" ELSE "zombie"]
  /\ wst' = [wst EXCEPT ![pr] = st]
  /\ fdt' = [fdt EXCEPT ![pr] = NoFds]

\* fork() succeeds in process parent: child is a copy of it
Fork(parent, child) ==
  /\ ps' = [ps EXCEPT ![child] = "run"]
  /\ fdt' = [fdt EXCEPT ![child] = fdt[parent]]
  /\ cwd' = [cwd EXCEPT ![child] = cwd[parent]]
  /\ env' = [env EXCEPT ![child] = env[parent]]

\* waitpid(child, &status, 0) returns the child: it has terminated
Reap(child) ==
  /\ ps[child] = "zombie"
  /\ ps' = [ps EXCEPT ![child] = "reaped"]

\* waitpid(child, &status, 0) returns -1 and leaves status alone: with
\* SIGCHLD ignored the call blocks until the child has terminated and then
\* fails with ECHILD
WaitFails(child) ==
  /\ sigchld = "SIG_IGN"
  /\ ps[child] = "reaped"
  /\ UNCHANGED ps

-----------------------------------------------------------------------------
(* parse_command *)

\* if (!c || (father == NULL && level != 0)) return -1;
ParseCommandNull(p) ==
  /\ AtPc(p, "start")
  /\ Node(p).op = "NULL" \/ (p = <<>> /\ Len(p) # 0)
  /\ frame' = Return(frame, p, -1)
  /\ UNCHANGED <<sigchld, tree, ps, wst, fdt, cwd, env, nw, pipes>>

\* OP_SEQUENTIAL, OP_CONDITIONAL_ZERO, OP_CONDITIONAL_NZERO: the first call
CondLeft(p) ==
  /\ AtPc(p, "start")
  /\ Node(p).op \in CondOps
  /\ frame' = Call([frame EXCEPT ![p].pc = "left"], p \o <<1>>)
  /\ UNCHANGED <<sigchld, tree, ps, wst, fdt, cwd, env, nw, pipes>>

\* OP_SEQUENTIAL that looks at the first call's status, as && does
SequentialLooksAtStatus(p) ==
  /\ AtPc(p, "left")
  /\ Node(p).op = "OP_SEQUENTIAL"
  /\ frame[p \o <<1>>].pc = "done"
  /\ frame' = IF frame[p \o <<1>>].ret = 0
                THEN Call([frame EXCEPT ![p].pc = "right"], p \o <<2>>)
                ELSE Return(frame, p, frame[p \o <<1>>].ret)
  /\ UNCHANGED <<sigchld, tree, ps, wst, fdt, cwd, env, nw, pipes>>

\* case OP_SEQUENTIAL: the first call has returned
Sequential(p) ==
  /\ AtPc(p, "left")
  /\ Node(p).op = "OP_SEQUENTIAL"
  /\ frame[p \o <<1>>].pc = "done"
  /\ frame' = Call([frame EXCEPT ![p].pc = "right"], p \o <<2>>)
  /\ UNCHANGED <<sigchld, tree, ps, wst, fdt, cwd, env, nw, pipes>>

\* case OP_CONDITIONAL_ZERO: the first call has returned
ConditionalZero(p) ==
  /\ AtPc(p, "left")
  /\ Node(p).op = "OP_CONDITIONAL_ZERO"
  /\ frame[p \o <<1>>].pc = "done"
  /\ frame' = IF frame[p \o <<1>>].ret = 0
                THEN Call([frame EXCEPT ![p].pc = "right"], p \o <<2>>)
                ELSE Return(frame, p, 0)
  /\ UNCHANGED <<sigchld, tree, ps, wst, fdt, cwd, env, nw, pipes>>

\* OP_CONDITIONAL_NZERO with the test of the first call's status inverted
ConditionalNZeroInverted(p) ==
  /\ AtPc(p, "left")
  /\ Node(p).op = "OP_CONDITIONAL_NZERO"
  /\ frame[p \o <<1>>].pc = "done"
  /\ frame' = IF frame[p \o <<1>>].ret = 0
                THEN Call([frame EXCEPT ![p].pc = "right"], p \o <<2>>)
                ELSE Return(frame, p, 0)
  /\ UNCHANGED <<sigchld, tree, ps, wst, fdt, cwd, env, nw, pipes>>

\* case OP_CONDITIONAL_NZERO: the first call has returned
ConditionalNZero(p) ==
  /\ AtPc(p, "left")
  /\ Node(p).op = "OP_CONDITIONAL_NZERO"
  /\ frame[p \o <<1>>].pc = "done"
  /\ frame' = IF frame[p \o <<1>>].ret # 0
                THEN Call([frame EXCEPT ![p].pc = "right"], p \o <<2>>)
                ELSE Return(frame, p, 0)
  /\ UNCHANGED <<sigchld, tree, ps, wst, fdt, cwd, env, nw, pipes>>

\* return parse_command(c->cmd2, level + 1, c);
CondRight(p) ==
  /\ AtPc(p, "right")
  /\ frame[p \o <<2>>].pc = "done"
  /\ frame' = Return(frame, p, frame[p \o <<2>>].ret)
  /\ UNCHANGED <<sigchld, tree, ps, wst, fdt, cwd, env, nw, pipes>>

-----------------------------------------------------------------------------
(* Pipes as the kernel keeps them *)

\* process pr, whose table is t, writes one unit to descriptor d of it:
\* "sigpipe" when d is the write end of a pipe nobody can read, "pipe" when
\* the unit enters a pipe, "other" (a terminal, a file, a bad descriptor)
\* when the write leaves the pipes alone
WriteKind(pr, t, fd) ==
  IF t[fd].k # "pw" THEN "other"
  ELSE IF \/ \E g \in Fds : t[g] = PipeR(t[fd].at)
          \/ \E o \in Procs \ {pr} : Alive(o) /\ \E g \in Fds : fdt[o][g] = PipeR(t[fd].at)
    THEN "pipe"
    ELSE "sigpipe"

Unit(pr) == [by |-> pr, n |-> nw[pr] + 1]

\* the pipes after pr wrote its next unit into the pipe of node x
PipeWrite(pr, x) ==
  [pipes EXCEPT ![x].buf = Append(@, Unit(pr)), ![x].wr = Append(@, Unit(pr))]

-----------------------------------------------------------------------------
(* parse_simple *)

HasEq(word) == \E i \in 1 .. Len(word) : word[i] = "="

\* strtok_r(.., "=", &save) on string str, continuing at index i: the token
\* (NULL when only delimiters are left) and the index it continues at
Token(str, b, e) ==
  IF b > Len(str) THEN [tok |-> NULL, next |-> b]
  ELSE [tok |-> SubSeq(str, b, e - 1), next |-> e + 1]

TokenFrom(str, b) == Token(str, b, FindEnd(str, b, {"="}))

strtok_r(str, i) == TokenFrom(str, SpanEnd(str, i, {"="}))

\* the word is parsed by the parser's get_word, which this repository's
\* files do not hold: the verb is taken as the string the parser built
get_word(verb) == verb

\* if (!s || !s->verb || !s->verb->string) return -1;
SimpleNull(p) ==
  /\ AtPc(p, "start")
  /\ Node(p).op = "OP_NONE"
  /\ Node(p).scmd.verb = NULL
  /\ frame' = Return(frame, p, -1)
  /\ UNCHANGED <<sigchld, tree, ps, wst, fdt, cwd, env, nw, pipes>>

\* the verb of the simple command at p, for a command that has one
Verb(p) == get_word(Node(p).scmd.verb)
HasVerb(p) == Node(p).op = "OP_NONE" /\ Node(p).scmd.verb # NULL

\* Environment variable assignment.  strtok_r is given &word_copy as its
\* save pointer, so free(word_copy) frees a pointer into the middle of the
\* copy: the call either returns or aborts the process.
SimpleAssign(p) ==
  /\ AtPc(p, "start")
  /\ HasVerb(p) /\ HasEq(Verb(p))
  /\ \E pr \in {Exec(p)}, name \in {strtok_r(Verb(p), 1)} :
       \E value \in {strtok_r(Verb(p), name.next)} :
         \E set \in {name.tok # NULL /\ value.tok # NULL} :
           /\ env' = [env EXCEPT ![pr] = IF set THEN Setenv(@, name.tok, value.tok)
                                         ELSE @]
           /\ \/ /\ frame' = Return(frame, p, IF set THEN 0 ELSE -1)
                 /\ UNCHANGED <<ps, wst, fdt>>
              \/ /\ Terminate(pr, Signaled)
                 /\ UNCHANGED frame
  /\ UNCHANGED <<sigchld, tree, cwd, nw, pipes>>

\* int saved_stdout = dup(STDOUT_FILENO); int saved_stderr = dup(STDERR_FILENO);
\* handle_redirection(s);
Entered(a, b, r) ==
  [saved_stdout |-> a.fd, saved_stderr |-> b.fd, ok |-> r.ok, t |-> r.t]

SavedBoth(a, b, cmd, e) ==
  The({ Entered(a, b, r) : r \in {handle_redirection(cmd, b.t, e)} })

SavedStdout(a, cmd, e) ==
  The({ SavedBoth(a, b, cmd, e) : b \in {Dup(a.t, STDERR_FILENO)} })

BuiltinEnter(p, pr) ==
  The({ SavedStdout(a, cmd, e) :
          a \in {Dup(fdt[pr], STDOUT_FILENO)}, cmd \in {Node(p).scmd},
          e \in {env[pr]} })

\* dup2(saved_stdout, STDOUT_FILENO); dup2(saved_stderr, STDERR_FILENO);
\* close(saved_stdout); close(saved_stderr);
BuiltinLeave(t, saved_stdout, saved_stderr) ==
  Close(Close(Dup2(Dup2(t, saved_stdout, STDOUT_FILENO),
                   saved_stderr, STDERR_FILENO),
              saved_stdout),
        saved_stderr)

\* a builtin whose redirection cannot be set up: handle_redirection calls
\* exit(EXIT_FAILURE) in the process running the builtin
BuiltinRedirectFails(p) ==
  /\ AtPc(p, "start")
  /\ HasVerb(p) /\ ~HasEq(Verb(p)) /\ IsBuiltin(Verb(p))
  /\ \E pr \in {Exec(p)} :
       /\ ~BuiltinEnter(p, pr).ok
       /\ Terminate(pr, Exited(EXIT_FAILURE))
  /\ UNCHANGED <<sigchld, tree, frame, cwd, env, nw, pipes>>

\* cd
BuiltinCd(p) ==
  /\ AtPc(p, "start")
  /\ HasVerb(p) /\ Verb(p) = W_cd
  /\ \E pr \in {Exec(p)} :
       \E en \in {BuiltinEnter(p, pr)},
          cd \in {shell_cd(Node(p).scmd.params, cwd[pr], env[pr])} :
         /\ en.ok
         /\ cwd' = [cwd EXCEPT ![pr] = cd.cwd]
         /\ fdt' = [fdt EXCEPT ![pr] =
                      BuiltinLeave(en.t, en.saved_stdout, en.saved_stderr)]
         /\ frame' = Return(frame, p, IF cd.ok THEN 0 ELSE 1)
  /\ UNCHANGED <<sigchld, tree, ps, wst, env, nw, pipes>>

\* pwd: shell_pwd prints the working directory on standard output
BuiltinPwd(p) ==
  /\ AtPc(p, "start")
  /\ HasVerb(p) /\ Verb(p) = W_pwd
  /\ \E pr \in {Exec(p)} :
       \E en \in {BuiltinEnter(p, pr)} :
         \E wk \in {WriteKind(pr, en.t, STDOUT_FILENO)} :
           /\ en.ok
           /\ IF wk = "sigpipe"
                THEN /\ Terminate(pr, Signaled)
                     /\ UNCHANGED <<frame, nw, pipes>>
                ELSE /\ fdt' = [fdt EXCEPT ![pr] =
                                  BuiltinLeave(en.t, en.saved_stdout, en.saved_stderr)]
                     /\ frame' = Return(frame, p, 0)
                     /\ IF wk = "pipe"
                          THEN /\ pipes' = PipeWrite(pr, en.t[STDOUT_FILENO].at)
                               /\ nw' = [nw EXCEPT ![pr] = @ + 1]
                          ELSE UNCHANGED <<nw, pipes>>
                     /\ UNCHANGED <<ps, wst>>
  /\ UNCHANGED <<sigchld, tree, cwd, env>>

\* exit, quit: shell_exit calls exit(0)
BuiltinExit(p) ==
  /\ AtPc(p, "start")
  /\ HasVerb(p) /\ Verb(p) \in {W_exit, W_quit}
  /\ \E pr \in {Exec(p)} :
       /\ BuiltinEnter(p, pr).ok
       /\ Terminate(pr, Exited(0))
  /\ UNCHANGED <<sigchld, tree, frame, cwd, env, nw, pipes>>

IsExternal(p) == HasVerb(p) /\ ~HasEq(Verb(p)) /\ ~IsBuiltin(Verb(p))

\* pid_t pid = fork(); if (pid == -1) return 1;
SimpleFork(p) ==
  /\ AtPc(p, "start")
  /\ IsExternal(p)
  /\ \/ /\ Fork(Exec(p), Ext(p))
        /\ frame' = [frame EXCEPT ![p].pc = "wait"]
        /\ UNCHANGED wst
     \/ /\ frame' = Return(frame, p, 1)
        /\ UNCHANGED <<ps, wst, fdt, cwd, env>>
  /\ UNCHANGED <<sigchld, tree, nw, pipes>>

\* the child: handle_redirection(s); execvp(word, argv); exit(EXIT_FAILURE);
SimpleChild(p) ==
  /\ Called(p) /\ IsExternal(p)
  /\ ps[Ext(p)] = "run"
  /\ \E r \in {handle_redirection(Node(p).scmd, fdt[Ext(p)], env[Ext(p)])} :
       IF r.ok /\ Verb(p) \in Programs
         THEN /\ ps' = [ps EXCEPT ![Ext(p)] = "prog"]
              /\ fdt' = [fdt EXCEPT ![Ext(p)] = r.t]
              /\ UNCHANGED wst
         ELSE Terminate(Ext(p), Exited(EXIT_FAILURE))
  /\ UNCHANGED <<sigchld, tree, frame, cwd, env, nw, pipes>>

\* waitpid(pid, &status, 0) returns the child
SimpleWait(p) ==
  /\ AtPc(p, "wait")
  /\ Reap(Ext(p))
  /\ frame' = Return([frame EXCEPT ![p].status1 = wst[Ext(p)]], p,
                     IF WIFEXITED(wst[Ext(p)]) THEN WEXITSTATUS(wst[Ext(p)])
                     ELSE 1)
  /\ UNCHANGED <<sigchld, tree, wst, fdt, cwd, env, nw, pipes>>

\* waitpid(pid, &status, 0) fails: its result is not looked at, and status
\* is read as it was left
SimpleWaitFails(p) ==
  /\ AtPc(p, "wait")
  /\ WaitFails(Ext(p))
  /\ \E st \in UninitStatus :
       frame' = Return([frame EXCEPT ![p].status1 = st], p,
                       IF WIFEXITED(st) THEN WEXITSTATUS(st) ELSE 1)
  /\ UNCHANGED <<sigchld, tree, wst, fdt, cwd, env, nw, pipes>>

-----------------------------------------------------------------------------
(* External programs and signals *)

\* a program writes to its standard output
ProgWrite(pr) ==
  /\ ps[pr] = "prog"
  /\ nw[pr] < MaxWrite
  /\ \E wk \in {WriteKind(pr, fdt[pr], STDOUT_FILENO)} :
       /\ wk # "other"
       /\ IF wk = "sigpipe"
            THEN /\ Terminate(pr, Signaled)
                 /\ UNCHANGED <<nw, pipes>>
            ELSE /\ pipes' = PipeWrite(pr, fdt[pr][STDOUT_FILENO].at)
                 /\ nw' = [nw EXCEPT ![pr] = @ + 1]
                 /\ UNCHANGED <<ps, wst, fdt>>
  /\ UNCHANGED <<sigchld, tree, frame, cwd, env>>

\* a program reads its standard input: the next unit of the pipe, or the
\* end of file once the pipe is empty and no process holds its write end
ProgRead(pr) ==
  /\ ps[pr] = "prog"
  /\ fdt[pr][STDIN_FILENO].k = "pr"
  /\ \E x \in {fdt[pr][STDIN_FILENO].at} :
       IF pipes[x].buf # <<>>
         THEN pipes' = [pipes EXCEPT ![x].buf = Tail(@),
                          ![x].rd = Append(@, [by |-> pr, u |-> Head(pipes[x].buf)])]
         ELSE /\ ~Held(PipeW(x))
              /\ ~pipes[x].eof
              /\ pipes' = [pipes EXCEPT ![x].eof = TRUE]
  /\ UNCHANGED <<sigchld, tree, frame, ps, wst, fdt, cwd, env, nw>>

\* a program calls exit(c)
ProgExit(pr) ==
  /\ ps[pr] = "prog"
  /\ \E c \in ExitCodes : Terminate(pr, Exited(c))
  /\ UNCHANGED <<sigchld, tree, frame, cwd, env, nw, pipes>>

\* a signal kills a child process (one that has no running child of its own)
Kill(pr) ==
  /\ pr # Sh
  /\ Alive(pr)
  /\ \A c \in Procs \ {Sh} : ForkedBy(c) = pr => ~Alive(c)
  /\ Terminate(pr, Signaled)
  /\ UNCHANGED <<sigchld, tree, frame, cwd, env, nw, pipes>>

-----------------------------------------------------------------------------
(* Children forked for a subtree *)

\* exit(parse_command(cmd, level + 1, father)) in the child forked for the
\* subtree at q
SubExit(q) ==
  /\ q # <<>> /\ Called(q)
  /\ Exec(q) = Sub(q)
  /\ ps[Sub(q)] = "run"
  /\ frame[q].pc = "done"
  /\ Terminate(Sub(q), Exited(frame[q].ret))
  /\ UNCHANGED <<sigchld, tree, frame, cwd, env, nw, pipes>>

-----------------------------------------------------------------------------
(* run_in_parallel *)

\* if (!cmd1 || !cmd2) return false; pid1 = fork(); if (pid1 == -1) return false;
\* parse_command turns false into -1
ParallelFork1(p) ==
  /\ AtPc(p, "start")
  /\ Node(p).op = "OP_PARALLEL"
  /\ IF Node(p).cmd1.op = "NULL" \/ Node(p).cmd2.op = "NULL"
       THEN /\ frame' = Return(frame, p, -1)
            /\ UNCHANGED <<ps, wst, fdt, cwd, env>>
       ELSE \/ /\ Fork(Exec(p), Sub(p \o <<1>>))
               /\ frame' = Call([frame EXCEPT ![p].pc = "par_fork2"], p \o <<1>>)
               /\ UNCHANGED wst
            \/ /\ frame' = Return(frame, p, -1)
               /\ UNCHANGED <<ps, wst, fdt, cwd, env>>
  /\ UNCHANGED <<sigchld, tree, nw, pipes>>

\* pid2 = fork(); if (pid2 == -1) return false;
ParallelFork2(p) ==
  /\ AtPc(p, "par_fork2")
  /\ \/ /\ Fork(Exec(p), Sub(p \o <<2>>))
        /\ frame' = Call([frame EXCEPT ![p].pc = "par_wait1"], p \o <<2>>)
        /\ UNCHANGED wst
     \/ /\ frame' = Return(frame, p, -1)
        /\ UNCHANGED <<ps, wst, fdt, cwd, env>>
  /\ UNCHANGED <<sigchld, tree, nw, pipes>>

\* waitpid(pid1, &status1, 0) == -1 || ...: the call returns the child, or
\* fails and run_in_parallel returns false
ParallelWait1(p) ==
  /\ AtPc(p, "par_wait1")
  /\ \/ /\ Reap(Sub(p \o <<1>>))
        /\ frame' = [frame EXCEPT ![p].pc = "par_wait2",
                                  ![p].status1 = wst[Sub(p \o <<1>>)]]
     \/ /\ WaitFails(Sub(p \o <<1>>))
        /\ frame' = Return(frame, p, -1)
  /\ UNCHANGED <<sigchld, tree, wst, fdt, cwd, env, nw, pipes>>

\* ... || waitpid(pid2, &status2, 0) == -1, then
\* if (WIFEXITED(status1) && WIFEXITED(status2)) return true; return false;
ParallelWait2(p) ==
  /\ AtPc(p, "par_wait2")
  /\ \/ /\ Reap(Sub(p \o <<2>>))
        /\ frame' = Return([frame EXCEPT ![p].status2 = wst[Sub(p \o <<2>>)]], p,
                           IF WIFEXITED(frame[p].status1)
                              /\ WIFEXITED(wst[Sub(p \o <<2>>)])
                             THEN 0 ELSE -1)
     \/ /\ WaitFails(Sub(p \o <<2>>))
        /\ frame' = Return(frame, p, -1)
  /\ UNCHANGED <<sigchld, tree, wst, fdt, cwd, env, nw, pipes>>

-----------------------------------------------------------------------------
(* run_on_pipe *)

\* if (pipe(pipefd) == -1) return false;  pipe() fails when the table has
\* no two free descriptors (EMFILE) or the system has none (ENFILE)
PipeCreate(p) ==
  /\ AtPc(p, "start")
  /\ Node(p).op = "OP_PIPE"
  /\ \E pr \in {Exec(p)} :
       \E r \in {Install(fdt[pr], LowestFree(fdt[pr]), PipeR(p))} :
         \E w \in {Install(r.t, LowestFree(r.t), PipeW(p))} :
           \/ /\ r.fd # -1 /\ w.fd # -1
              /\ fdt' = [fdt EXCEPT ![pr] = w.t]
              /\ frame' = [frame EXCEPT ![p].pc = "pipe_fork1",
                                        ![p].pipefd = <<r.fd, w.fd>>]
           \/ /\ frame' = Return(frame, p, -1)
              /\ UNCHANGED fdt
  /\ UNCHANGED <<sigchld, tree, ps, wst, cwd, env, nw, pipes>>

\* pid1 = fork(): the child; -1 with EAGAIN or ENOMEM (return false); -1
\* with another errno (close both ends, return false)
PipeFork1(p) ==
  /\ AtPc(p, "pipe_fork1")
  /\ \/ /\ Fork(Exec(p), Sub(p \o <<1>>))
        /\ frame' = [frame EXCEPT ![p].pc = "pipe_fork2",
                                  ![p \o <<1>>].pc = "pipe_child1"]
        /\ UNCHANGED wst
     \/ /\ frame' = Return(frame, p, -1)
        /\ UNCHANGED <<ps, wst, fdt, cwd, env>>
     \/ /\ frame' = Return(frame, p, -1)
        /\ fdt' = [fdt EXCEPT ![Exec(p)] =
                     Close(Close(@, frame[p].pipefd[1]), frame[p].pipefd[2])]
        /\ UNCHANGED <<ps, wst, cwd, env>>
  /\ UNCHANGED <<sigchld, tree, nw, pipes>>

\* the first child with the write end put on standard error
PipeChild1OnStderr(p) ==
  /\ AtPc(p \o <<1>>, "pipe_child1")
  /\ fdt' = [fdt EXCEPT ![Sub(p \o <<1>>)] =
               Close(Dup2(Close(@, frame[p].pipefd[1]), frame[p].pipefd[2],
                          STDERR_FILENO),
                     frame[p].pipefd[2])]
  /\ frame' = Call(frame, p \o <<1>>)
  /\ UNCHANGED <<sigchld, tree, ps, wst, cwd, env, nw, pipes>>

\* the first child: close(pipefd[0]); dup2(pipefd[1], STDOUT_FILENO);
\* close(pipefd[1]); then parse_command(cmd1, ...)
PipeChild1(p) ==
  /\ AtPc(p \o <<1>>, "pipe_child1")
  /\ fdt' = [fdt EXCEPT ![Sub(p \o <<1>>)] =
               Close(Dup2(Close(@, frame[p].pipefd[1]), frame[p].pipefd[2],
                          STDOUT_FILENO),
                     frame[p].pipefd[2])]
  /\ frame' = Call(frame, p \o <<1>>)
  /\ UNCHANGED <<sigchld, tree, ps, wst, cwd, env, nw, pipes>>

\* pid2 = fork(): the child, or -1: close both ends and go on to wait for
\* the first child
PipeFork2(p) ==
  /\ AtPc(p, "pipe_fork2")
  /\ \/ /\ Fork(Exec(p), Sub(p \o <<2>>))
        /\ frame' = [frame EXCEPT ![p].pc = "pipe_close",
                                  ![p \o <<2>>].pc = "pipe_child2"]
        /\ UNCHANGED wst
     \/ /\ frame' = [frame EXCEPT ![p].pc = "pipe_cleanup"]
        /\ fdt' = [fdt EXCEPT ![Exec(p)] =
                     Close(Close(@, frame[p].pipefd[1]), frame[p].pipefd[2])]
        /\ UNCHANGED <<ps, wst, cwd, env>>
  /\ UNCHANGED <<sigchld, tree, nw, pipes>>

\* if (waitpid(pid1, NULL, 0) == -1) perror(..); return false;
PipeCleanup(p) ==
  /\ AtPc(p, "pipe_cleanup")
  /\ \/ Reap(Sub(p \o <<1>>))
     \/ WaitFails(Sub(p \o <<1>>))
  /\ frame' = Return(frame, p, -1)
  /\ UNCHANGED <<sigchld, tree, wst, fdt, cwd, env, nw, pipes>>

\* the second child without its close(pipefd[1])
PipeChild2KeepsWriteEnd(p) ==
  /\ AtPc(p \o <<2>>, "pipe_child2")
  /\ fdt' = [fdt EXCEPT ![Sub(p \o <<2>>)] =
               Close(Dup2(@, frame[p].pipefd[1], STDIN_FILENO),
                     frame[p].pipefd[1])]
  /\ frame' = Call(frame, p \o <<2>>)
  /\ UNCHANGED <<sigchld, tree, ps, wst, cwd, env, nw, pipes>>

\* the second child: close(pipefd[1]); dup2(pipefd[0], STDIN_FILENO);
\* close(pipefd[0]); then parse_command(cmd2, ...)
PipeChild2(p) ==
  /\ AtPc(p \o <<2>>, "pipe_child2")
  /\ fdt' = [fdt EXCEPT ![Sub(p \o <<2>>)] =
               Close(Dup2(Close(@, frame[p].pipefd[2]), frame[p].pipefd[1],
                          STDIN_FILENO),
                     frame[p].pipefd[1])]
  /\ frame' = Call(frame, p \o <<2>>)
  /\ UNCHANGED <<sigchld, tree, ps, wst, cwd, env, nw, pipes>>

\* the parent: close(pipefd[0]); close(pipefd[1]);
PipeParentClose(p) ==
  /\ AtPc(p, "pipe_close")
  /\ fdt' = [fdt EXCEPT ![Exec(p)] =
               Close(Close(@, frame[p].pipefd[1]), frame[p].pipefd[2])]
  /\ frame' = [frame EXCEPT ![p].pc = "pipe_wait1"]
  /\ UNCHANGED <<sigchld, tree, ps, wst, cwd, env, nw, pipes>>

\* waitpid(pid1, &status1, 0): neither the result nor status1 is looked at
PipeWait1(p) ==
  /\ AtPc(p, "pipe_wait1")
  /\ \/ Reap(Sub(p \o <<1>>))
     \/ WaitFails(Sub(p \o <<1>>))
  /\ frame' = [frame EXCEPT ![p].pc = "pipe_wait2"]
  /\ UNCHANGED <<sigchld, tree, wst, fdt, cwd, env, nw, pipes>>

PipeStatus(status2) == IF WIFEXITED(status2) /\ WEXITSTATUS(status2) = 0 THEN 0 ELSE -1

\* waitpid(pid2, &status2, 0); return WIFEXITED(status2) && WEXITSTATUS(status2) == 0;
\* parse_command turns true into 0 and false into -1
PipeWait2(p) ==
  /\ AtPc(p, "pipe_wait2")
  /\ \/ /\ Reap(Sub(p \o <<2>>))
        /\ frame' = Return([frame EXCEPT ![p].status2 = wst[Sub(p \o <<2>>)]], p,
                           PipeStatus(wst[Sub(p \o <<2>>)]))
     \/ /\ WaitFails(Sub(p \o <<2>>))
        /\ \E st \in UninitStatus :
             frame' = Return([frame EXCEPT ![p].status2 = st], p, PipeStatus(st))
  /\ UNCHANGED <<sigchld, tree, wst, fdt, cwd, env, nw, pipes>>

-----------------------------------------------------------------------------

Next ==
  \/ \E p \in Paths :
       \/ ParseCommandNull(p)
       \/ CondLeft(p)
       \/ Sequential(p)
       \/ ConditionalZero(p)
       \/ ConditionalNZero(p)
       \/ CondRight(p)
       \/ SimpleNull(p)
       \/ SimpleAssign(p)
       \/ BuiltinRedirectFails(p)
       \/ BuiltinCd(p)
       \/ BuiltinPwd(p)
       \/ BuiltinExit(p)
       \/ SimpleFork(p)
       \/ SimpleChild(p)
       \/ SimpleWait(p)
       \/ SimpleWaitFails(p)
       \/ SubExit(p)
       \/ ParallelFork1(p)
       \/ ParallelFork2(p)
       \/ ParallelWait1(p)
       \/ ParallelWait2(p)
       \/ PipeCreate(p)
       \/ PipeFork1(p)
       \/ PipeChild1(p)
       \/ PipeFork2(p)
       \/ PipeCleanup(p)
       \/ PipeChild2(p)
       \/ PipeParentClose(p)
       \/ PipeWait1(p)
       \/ PipeWait2(p)
  \/ \E pr \in Procs :
       \/ ProgWrite(pr)
       \/ ProgRead(pr)
       \/ ProgExit(pr)
       \/ Kill(pr)

Spec == Init /\ [][Next]_vars

-----------------------------------------------------------------------------
(* Evaluation with programs that end once they have read their input to    *)
(* the end of file, and with no signal sent from outside: every step that  *)
(* can be taken is eventually taken.                                       *)

\* pipelines whose producer or consumer is itself a pipeline
NestedPipes ==
  {Op("OP_PIPE", Op("OP_PIPE", Pwd, Prog), Prog),
   Op("OP_PIPE", Pwd, Op("OP_PIPE", Prog, Prog))}

InitLive ==
  /\ tree \in TreeFamily \cup NestedPipes
  /\ frame = [p \in Paths |-> IF p = <<>> THEN [InitFrame EXCEPT !.pc = "start"]
                              ELSE InitFrame]
  /\ ps = [pr \in Procs |-> IF pr = Sh THEN "run" ELSE "unborn"]
  /\ wst = [pr \in Procs |-> NoStatus]
  /\ fdt = [pr \in Procs |-> IF pr = Sh THEN InitFds ELSE NoFds]
  /\ cwd = [pr \in Procs |-> <<"/">>]
  /\ env = [pr \in Procs |-> InitEnv]
  /\ nw = [pr \in Procs |-> 0]
  /\ pipes = [p \in Paths |-> EmptyPipe]
  /\ sigchld \in {"SIG_DFL", "SIG_IGN"}

\* a program whose standard input is a pipe calls exit(c) once the end of
\* file has been read from it; any other program calls it when it likes
ProgExitAtEof(pr) ==
  /\ ps[pr] = "prog"
  /\ fdt[pr][STDIN_FILENO].k = "pr" => pipes[fdt[pr][STDIN_FILENO].at].eof
  /\ \E c \in ExitCodes : Terminate(pr, Exited(c))
  /\ UNCHANGED <<sigchld, tree, frame, cwd, env, nw, pipes>>

NextLive ==
  \/ \E p \in Paths :
       \/ ParseCommandNull(p)
       \/ CondLeft(p)
       \/ Sequential(p)
       \/ ConditionalZero(p)
       \/ ConditionalNZero(p)
       \/ CondRight(p)
       \/ SimpleNull(p)
       \/ SimpleAssign(p)
       \/ BuiltinRedirectFails(p)
       \/ BuiltinCd(p)
       \/ BuiltinPwd(p)
       \/ BuiltinExit(p)
       \/ SimpleFork(p)
       \/ SimpleChild(p)
       \/ SimpleWait(p)
       \/ SimpleWaitFails(p)
       \/ SubExit(p)
       \/ ParallelFork1(p)
       \/ ParallelFork2(p)
       \/ ParallelWait1(p)
       \/ ParallelWait2(p)
       \/ PipeCreate(p)
       \/ PipeFork1(p)
       \/ PipeChild1(p)
       \/ PipeFork2(p)
       \/ PipeCleanup(p)
       \/ PipeChild2(p)
       \/ PipeParentClose(p)
       \/ PipeWait1(p)
       \/ PipeWait2(p)
  \/ \E pr \in Procs :
       \/ ProgWrite(pr)
       \/ ProgRead(pr)
       \/ ProgExitAtEof(pr)

SpecLive == InitLive /\ [][NextLive]_vars /\ WF_vars(NextLive)

-----------------------------------------------------------------------------
(* Properties *)

\* the paths of the operator nodes `o` that parse_command is called on
OpNodes(o) == {p \in Paths : Len(p) < 2 /\ Called(p) /\ Node(p).op = o}

Left(p) == frame[p \o <<1>>]
Right(p) == frame[p \o <<2>>]
Returned(p) == frame[p].pc = "done"

\* process pr runs inside the subtree at path q
InSubtree(pr, q) == pr # Sh /\ IsPrefix(q, pr.at)

Terminated(pr) == ps[pr] \in {"zombie", "reaped"}
Forked(pr) == ps[pr] # "unborn"

\* C1: an AND node that has returned: when the left status is 0 the right
\* child was evaluated and the node's status is the right status; when the
\* left status is not 0 the right child was never evaluated and the node's
\* status is the left status.
C1_AndStatus ==
  \A p \in OpNodes("OP_CONDITIONAL_ZERO") :
    Returned(p) =>
      IF Left(p).ret = 0
        THEN Right(p).pc = "done" /\ frame[p].ret = Right(p).ret
        ELSE Right(p).pc = "idle" /\ frame[p].ret = Left(p).ret

\* C2: an OR node: the right child is evaluated only after the left child
\* returned a nonzero status; a node that has returned has the right status
\* when the left status is nonzero, and status 0 with the right child never
\* evaluated when the left status is 0.
C2_OrStatus ==
  \A p \in OpNodes("OP_CONDITIONAL_NZERO") :
    /\ Right(p).pc # "idle" => Left(p).pc = "done" /\ Left(p).ret # 0
    /\ Returned(p) =>
         IF Left(p).ret # 0
           THEN Right(p).pc = "done" /\ frame[p].ret = Right(p).ret
           ELSE Right(p).pc = "idle" /\ frame[p].ret = Left(p).ret

\* an OR node returned the nonzero status of its right child, evaluated
\* after a left child that failed
C2_Witness ==
  \E p \in OpNodes("OP_CONDITIONAL_NZERO") :
    Returned(p) /\ Left(p).ret # 0 /\ Right(p).pc = "done" /\ frame[p].ret = 3

\* C3: a PIPE node that has returned after its consumer child exited (with
\* the default disposition of SIGCHLD, so that every waitpid succeeds): the
\* node's status is, as an exit status (modulo 256), the consumer's.
C3_PipeStatusIsConsumers ==
  \A p \in OpNodes("OP_PIPE") :
    /\ sigchld = "SIG_DFL"
    /\ Returned(p)
    /\ Terminated(Sub(p \o <<2>>)) /\ WIFEXITED(wst[Sub(p \o <<2>>)])
    => frame[p].ret % 256 = WEXITSTATUS(wst[Sub(p \o <<2>>)])

\* C4: a PIPE node that has returned after both forks succeeded: both
\* children have been waited for, and the node's status is 0 exactly when the
\* right child exited with code 0.
C4_PipeSuccessIffRightExitedZero ==
  \A p \in OpNodes("OP_PIPE") :
    Returned(p) /\ Forked(Sub(p \o <<1>>)) /\ Forked(Sub(p \o <<2>>))
      => /\ ps[Sub(p \o <<1>>)] = "reaped"
         /\ ps[Sub(p \o <<2>>)] = "reaped"
         /\ frame[p].ret = 0 <=>
              /\ WIFEXITED(wst[Sub(p \o <<2>>)])
              /\ WEXITSTATUS(wst[Sub(p \o <<2>>)]) = 0

\* C5: the pipe of a PIPE node: the producer subtree runs with the write end
\* as its standard output and the consumer subtree with the read end as its
\* standard input; only processes of the producer subtree have written into
\* it and only processes of the consumer subtree have read from it; what was
\* read is a prefix of what was written, unit for unit, and all of it once
\* the end of file has been read.
C5_PipeCarriesProducerToConsumer ==
  \A p \in OpNodes("OP_PIPE") :
    /\ ps[Sub(p \o <<1>>)] = "run" /\ Left(p).pc \notin {"idle", "pipe_child1"}
         => fdt[Sub(p \o <<1>>)][STDOUT_FILENO] = PipeW(p)
    /\ ps[Sub(p \o <<2>>)] = "run" /\ Right(p).pc \notin {"idle", "pipe_child2"}
         => fdt[Sub(p \o <<2>>)][STDIN_FILENO] = PipeR(p)
    /\ \A i \in DOMAIN pipes[p].wr : InSubtree(pipes[p].wr[i].by, p \o <<1>>)
    /\ \A i \in DOMAIN pipes[p].rd : InSubtree(pipes[p].rd[i].by, p \o <<2>>)
    /\ Len(pipes[p].rd) <= Len(pipes[p].wr)
    /\ \A i \in DOMAIN pipes[p].rd : pipes[p].rd[i].u = pipes[p].wr[i]
    /\ pipes[p].eof => Len(pipes[p].rd) = Len(pipes[p].wr)

\* the consumer read two units and then the end of file
C5_Witness ==
  \E p \in OpNodes("OP_PIPE") : pipes[p].eof /\ Len(pipes[p].rd) = 2

\* C6: a PARALLEL node that has returned after starting its first subtree:
\* both children have terminated, and the node's status is 0 exactly when
\* both exited (neither was ended by a signal).
C6_ParallelCompletes ==
  \A p \in OpNodes("OP_PARALLEL") :
    Returned(p) /\ Forked(Sub(p \o <<1>>))
      => /\ Terminated(Sub(p \o <<1>>))
         /\ Terminated(Sub(p \o <<2>>))
         /\ frame[p].ret = 0 <=>
              WIFEXITED(wst[Sub(p \o <<1>>)]) /\ WIFEXITED(wst[Sub(p \o <<2>>)])

\* C7: a SEQUENTIAL node: the right child is evaluated only after the left
\* child has returned; once the left child has returned, whatever its status,
\* the node goes on to the right child; a node that has returned has
\* evaluated the right child and has its status.
C7_SequentialStatus ==
  \A p \in OpNodes("OP_SEQUENTIAL") :
    /\ Right(p).pc # "idle" => Left(p).pc = "done"
    /\ AtPc(p, "left") /\ Left(p).pc = "done" => ENABLED Sequential(p)
    /\ frame[p].pc \in {"right", "done"} => Right(p).pc # "idle"
    /\ Returned(p) => Right(p).pc = "done" /\ frame[p].ret = Right(p).ret

\* a SEQUENTIAL node returned the status of its right child, evaluated after
\* a left child that returned the evaluator's error value
C7_Witness ==
  \E p \in OpNodes("OP_SEQUENTIAL") :
    Returned(p) /\ Left(p).ret = -1 /\ Right(p).pc = "done" /\ frame[p].ret = 3

\* the processes forked by the evaluation of the node at p itself
ChildrenOf(p) ==
  IF Node(p).op \in ForkOps THEN {Sub(p \o <<1>>), Sub(p \o <<2>>)}
  ELSE IF Node(p).op = "OP_NONE" THEN {Ext(p)}
  ELSE {}

\* C8: when the evaluation of a node has returned, every child process it
\* forked has terminated and has been waited for.
C8_NoChildLeftBehind ==
  \A p \in Paths :
    Called(p) /\ Len(p) < 2 /\ Returned(p)
      => \A c \in ChildrenOf(p) : ps[c] \in {"unborn", "reaped"}

\* C9: a step in which cd or pwd runs and returns leaves standard input,
\* standard output and standard error of the process that ran it as they
\* were.
C9_BuiltinRedirectionTransient ==
  [][\A p \in Paths :
       (BuiltinCd(p) \/ BuiltinPwd(p)) /\ frame'[p].pc = "done"
         => \A fd \in {STDIN_FILENO, STDOUT_FILENO, STDERR_FILENO} :
              fdt'[Exec(p)][fd] = fdt[Exec(p)][fd]]_vars

\* C10: a step in which the shell process terminates is the shell process
\* running exit or quit.
C10_ShellEndsOnlyByExit ==
  [][ps[Sh] = "run" /\ ps'[Sh] # "run"
       => \E p \in Paths : Exec(p) = Sh /\ BuiltinExit(p)]_vars

\* the simple command at p is exit or quit, about to be run
AtExit(p) == AtPc(p, "start") /\ HasVerb(p) /\ Verb(p) \in {W_exit, W_quit}

\* C11: a step in which a process runs the builtin exit or quit, whatever
\* the redirect targets of the command, ends that process with exit status 0.
C11_ExitStatusZero ==
  [][\A p \in Paths :
       AtExit(p) /\ (BuiltinExit(p) \/ BuiltinRedirectFails(p))
         => wst'[Exec(p)] = Exited(0)]_vars

\* NAME and VALUE of the word NAME=VALUE: what stands before and after the
\* first '='
NameOf(word) == SubSeq(word, 1, FindEnd(word, 1, {"="}) - 1)
ValueAfter(word) == SubSeq(word, FindEnd(word, 1, {"="}) + 1, Len(word))

\* C12: a step in which the assignment NAME=VALUE runs and returns: it
\* returns 0, and $NAME then expands to VALUE in the process that ran it.
C12_AssignThenExpand ==
  [][\A p \in Paths :
       SimpleAssign(p) /\ frame'[p].pc = "done"
         => /\ frame'[p].ret = 0
            /\ expand_variables(<<"$">> \o NameOf(Verb(p)), env'[Exec(p)])
                 = ValueAfter(Verb(p))]_vars

\* the simple command at p is cd, about to be run, and its argument names
\* no existing directory
AtCdMissing(p) ==
  /\ AtPc(p, "start") /\ HasVerb(p) /\ Verb(p) = W_cd
  /\ Node(p).scmd.params \notin {NULL, <<>>}
  /\ remove_quotes(Node(p).scmd.params) \notin Directories

\* C13: a step in which cd runs with an argument that names no existing
\* directory returns a nonzero status, leaves the process running and leaves
\* its working directory as it was.
C13_CdMissingDirectory ==
  [][\A p \in Paths :
       AtCdMissing(p) /\ BuiltinCd(p)
         => /\ frame'[p].pc = "done" /\ frame'[p].ret # 0
            /\ ps'[Exec(p)] = "run"
            /\ cwd'[Exec(p)] = cwd[Exec(p)]]_vars

\* cd to a missing directory has returned 1 in a shell that had moved to
\* directory d before, and is still there
C13_Witness ==
  \E p \in Paths :
    /\ Called(p) /\ HasVerb(p) /\ Verb(p) = W_cd
    /\ Node(p).scmd.params = <<"x">>
    /\ frame[p].pc = "done" /\ frame[p].ret = 1
    /\ ps[Exec(p)] = "run" /\ cwd[Exec(p)] = <<"d">>

\* C14: a step in which cd runs with no argument leaves the working
\* directory of the process as it was.
C14_CdNoArgumentDoesNothing ==
  [][\A p \in Paths :
       /\ AtPc(p, "start") /\ HasVerb(p) /\ Verb(p) = W_cd
       /\ Node(p).scmd.params \in {NULL, <<>>}
       /\ BuiltinCd(p)
       => cwd'[Exec(p)] = cwd[Exec(p)]]_vars

\* the simple command at p has an output and an error target that expand,
\* in environment e, to the same file name
SameExpanded(p, e) ==
  /\ Node(p).scmd.out # NULL /\ Node(p).scmd.err # NULL
  /\ expand_variables(Node(p).scmd.out, e) = expand_variables(Node(p).scmd.err, e)

\* the result r of handle_redirection for the command at p: the file of the
\* output target was opened at most once, and when handle_redirection
\* returned it was opened and standard output and standard error both refer
\* to it
OpenedOnce(p, e, r) ==
  /\ Cardinality({i \in DOMAIN r.opened :
                    r.opened[i] = expand_variables(Node(p).scmd.out, e)}) <= 1
  /\ r.ok => /\ expand_variables(Node(p).scmd.out, e) \in
                  {r.opened[i] : i \in DOMAIN r.opened}
             /\ r.t[STDOUT_FILENO] = FileD(expand_variables(Node(p).scmd.out, e))
             /\ r.t[STDERR_FILENO] = r.t[STDOUT_FILENO]

\* C15: a step in which the child of an external command, or a builtin,
\* runs handle_redirection on a command whose output and error targets
\* expand to the same name: the file is opened exactly once.
C15_CombinedOpenedOnce ==
  [][\A p \in Paths :
       /\ (SimpleChild(p) /\ SameExpanded(p, env[Ext(p)])
             => OpenedOnce(p, env[Ext(p)],
                           handle_redirection(Node(p).scmd, fdt[Ext(p)],
                                              env[Ext(p)])))
       /\ ((BuiltinCd(p) \/ BuiltinPwd(p)) /\ SameExpanded(p, env[Exec(p)])
             => OpenedOnce(p, env[Exec(p)],
                           handle_redirection(Node(p).scmd, fdt[Exec(p)],
                                              env[Exec(p)])))]_vars

\* C16: when a PIPE node has returned, the process that evaluated it holds
\* neither end of the pipe the node created.
C16_PipeEndsClosed ==
  \A p \in OpNodes("OP_PIPE") :
    Returned(p) /\ ps[Exec(p)] = "run"
      => \A fd \in Fds : fdt[Exec(p)][fd] \notin {PipeR(p), PipeW(p)}

\* C17: under a SEQUENTIAL, AND or OR node, once a process of the right
\* subtree has been started no process of the left subtree is still running.
C17_LeftResolvedBeforeRight ==
  \A p \in Paths :
    Len(p) < 2 /\ Called(p) /\ Node(p).op \in CondOps
      => \A r \in Procs, l \in Procs :
           InSubtree(r, p \o <<2>>) /\ Forked(r) /\ InSubtree(l, p \o <<1>>)
             => ~Alive(l)

\* the node at q is malformed: a null command, or a simple command with no
\* verb
Malformed(q) ==
  \/ Node(q).op = "NULL"
  \/ Node(q).op = "OP_NONE" /\ Node(q).scmd.verb = NULL

\* the exit codes a program can end with
RealExitCodes == 0 .. 255

\* C18: when the child forked for a malformed node under a PARALLEL or PIPE
\* node has exited with the evaluator's error status, the exit code its
\* parent observes is none of the exit codes of a real program.
C18_ErrorStatusDistinct ==
  \A q \in Paths \ {<<>>} :
    /\ Called(q) /\ Exec(q) = Sub(q) /\ Malformed(q)
    /\ frame[q].pc = "done" /\ frame[q].ret = -1
    /\ Terminated(Sub(q)) /\ WIFEXITED(wst[Sub(q)])
    => WEXITSTATUS(wst[Sub(q)]) \notin RealExitCodes

\* C19: an external simple command that has returned: with the child forked,
\* its status is the child's exit code when the child exited (nonzero when
\* exec failed in it) and 1 when a signal ended the child; with the fork
\* failed, its status is nonzero and no child ever ran.
C19_ExternalStatus ==
  \A p \in Paths :
    Called(p) /\ IsExternal(p) /\ Returned(p)
      => IF Forked(Ext(p))
           THEN /\ Terminated(Ext(p))
                /\ WIFEXITED(wst[Ext(p)])
                     => frame[p].ret = WEXITSTATUS(wst[Ext(p)])
                /\ ~WIFEXITED(wst[Ext(p)]) => frame[p].ret = 1
                /\ WIFEXITED(wst[Ext(p)]) /\ Verb(p) \notin Programs
                     => frame[p].ret # 0
           ELSE frame[p].ret # 0

\* the parent of the PIPE node at p has closed its ends and the consumer
\* child has closed its copy of the write end
PipeSetUp(p) ==
  /\ frame[p].pc \in {"pipe_wait1", "pipe_wait2", "done"}
  /\ Forked(Sub(p \o <<2>>)) /\ Right(p).pc # "pipe_child2"

\* in every PIPE node that has been set up, every process that still holds
\* the write end belongs to the producer subtree
WriteEndsClosed ==
  \A p \in OpNodes("OP_PIPE") :
    PipeSetUp(p)
      => \A pr \in Procs :
           Alive(pr) /\ (\E fd \in Fds : fdt[pr][fd] = PipeW(p))
             => InSubtree(pr, p \o <<1>>)

\* the shell process was ended by the exit or quit builtin (exit(0); the
\* other ways it ends leave another wait status)
EndedByExit == Terminated(Sh) /\ wst[Sh] = Exited(0)

\* C20: when every external program ends once it has read its input to
\* end-of-file, the copies of the write end of every pipe outside the
\* producer subtree are closed once the pipe is set up, and the top-level
\* parse_command eventually returns (or the exit or quit builtin has ended
\* the shell before it could).
C20_TerminatesWithoutDeadlock ==
  /\ []WriteEndsClosed
  /\ <>(Returned(<<>>) \/ EndedByExit)

\* what holds of every evaluation: the write ends are closed and no process
\* blocks forever; the evaluation ends with the top-level parse_command
\* returned or with the shell process terminated, whatever ended it
NoProcessBlocksForever ==
  /\ []WriteEndsClosed
  /\ <>(Returned(<<>>) \/ Terminated(Sh))

\* a pipeline whose consumer is itself a pipeline has returned, and the end
\* of file was read from both pipes
NestedPipeReturned ==
  /\ Node(<<>>).op = "OP_PIPE" /\ Node(<<2>>).op = "OP_PIPE"
  /\ Returned(<<>>)
  /\ pipes[<<>>].eof /\ pipes[<<2>>].eof

====
